---- MODULE Spec2Model ----
(***************************************************************************)
(* Model of Monitoring Automation/Monitoring_Automation.py: the poll loop  *)
(* (prog_thread) over the three backends (Crestron Fusion, Biamp SageVue,  *)
(* Dante Domain Manager), the alert batcher, the scheduled jobs and the    *)
(* REST control surface.                                                   *)
(*                                                                         *)
(* Text is modelled as a sequence of tokens: Python's `a + b` on strings   *)
(* is \o, and Python's `a in b` on strings is Contains(b, a) (contiguous   *)
(* sub-sequence).  Python lists are sequences.                             *)
(***************************************************************************)
EXTENDS Integers, Sequences, FiniteSets, TLC

\* ------------------------------------------------------------------ bounds

\* Longest fault list one SageVue system reports in one poll.
MaxFaults == 2

\* Largest raw device-error count the SageVue devices endpoint reports.
MaxDeviceErrors == 1

\* Most rows the Fusion offline-rooms query returns in one poll.
MaxOfflineRows == 1

\* Most entries ALERTS_TEMP_IGNORE holds: a mute request arrives only while
\* the list is shorter.
MaxMutes == 2

\* ------------------------------------------------------- text and lists

\* Python `sub in s` for two strings.
Contains(s, sub) ==
    \E i \in 0..(Len(s) - Len(sub)) : \A j \in 1..Len(sub) : s[i + j] = sub[j]

\* Python `x in L` for a list L.
InList(x, L) == \E i \in 1..Len(L) : L[i] = x

\* A faulty variant of the test below, which admits every key: with it a
\* stored fault would be recorded and submitted again.
NotInList_Always(x, L) == TRUE

\* A faulty variant of the test below, which looks at the newest entry only:
\* with it a stored fault that is not the newest would be recorded twice.
NotInList_Newest(x, L) == L = <<>> \/ L[Len(L)] # x

\* Python `x not in L`, the test every backend makes before it records a fault.
NotInList(x, L) == ~InList(x, L)

\* Index of the first element of L equal to x (x is in L).
FirstIndex(x, L) == CHOOSE i \in 1..Len(L) : L[i] = x /\ \A j \in 1..(i - 1) : L[j] # x

\* Python `L.remove(x)`: drops the first element equal to x.
ListRemove(L, x) ==
    LET k == FirstIndex(x, L)
    IN  [i \in 1..(Len(L) - 1) |-> IF i < k THEN L[i] ELSE L[i + 1]]

\* The set of elements of a list.
ListSet(L) == {L[i] : i \in 1..Len(L)}

\* A faulty variant of the loop below, which drops the oldest entry whether
\* or not it is still active.
RemoveStale_Oldest(L, keep, i) == IF L = <<>> THEN L ELSE Tail(L)

\* Python
\*     for e in L:
\*         if e not in keep:
\*             L.remove(e)
\* The list iterator holds an index into L; a removal shifts the tail left
\* while the index still advances.  i is the iterator's next position.
RECURSIVE RemoveStale(_, _, _)
RemoveStale(L, keep, i) ==
    IF i > Len(L) THEN L
    ELSE IF ~InList(L[i], keep) THEN RemoveStale(ListRemove(L, L[i]), keep, i + 1)
    ELSE RemoveStale(L, keep, i + 1)

\* All sequences over S of length at most n.
RECURSIVE SeqsUpTo(_, _)
SeqsUpTo(S, n) ==
    IF n = 0 THEN {<<>>}
    ELSE LET shorter == SeqsUpTo(S, n - 1)
         IN  shorter \cup {Append(s, x) : s \in {t \in shorter : Len(t) = n - 1}, x \in S}

\* The "\r"-joined text of a list of lines, as send_alert_notif and the status
\* messages build it: a "\r" after every line but the last.
RECURSIVE JoinLines(_, _)
JoinLines(L, x) ==
    IF x > Len(L) THEN <<>>
    ELSE L[x] \o (IF x # Len(L) THEN <<"\r">> ELSE <<>>) \o JoinLines(L, x + 1)

Dash == <<" - ">>

\* ------------------------------------------------ what the backends return

\* What the backends report in this run.  "ddm", "sagevue", "fusion": that
\* backend reports from its full universe of faults and the other two report
\* no fault; "all": each of the three reports at most one fault; "mute":
\* /ManualMute requests arrive, the domain manager reports at most one
\* offline device and Fusion at most one help request.  Any fetch may fail in
\* every scope.  It bounds the environment only: no statement of the program
\* reads it.
Scopes == {"ddm", "sagevue", "fusion", "all", "mute"}

\* DDM: the domains the domains query may list.
D1 == <<"Stage">>
D2 == <<"Lobby">>
DomainLists(sc) == IF sc = "ddm" THEN {<<D1>>, <<D1, D2>>} ELSE {<<D1>>}

StatusValues == {"ERROR", "OK"}
DeviceStatus ==
    [connectivity : StatusValues, subscriptions : StatusValues,
     latency : StatusValues, clocking : StatusValues]
OnlyConnectivity ==
    [connectivity : StatusValues, subscriptions : {"OK"}, latency : {"OK"}, clocking : {"OK"}]

\* The device lists a devices query on `domain` may return.
DeviceLists(sc, domain) ==
    IF sc = "ddm" /\ domain = D1
    THEN {<<>>} \cup {<<[name |-> <<"amp">>, status |-> s]>> : s \in DeviceStatus}
    ELSE IF sc \in {"ddm", "all", "mute"}
    THEN {<<>>} \cup {<<[name |-> <<"mic">>, status |-> s]>> : s \in OnlyConnectivity}
    ELSE {<<>>}

\* SageVue: fault messages, fault lists, raw device-error counts, systems.
SageVueMessages(sc) ==
    IF sc = "sagevue"
    THEN {<<"fan">>, <<"psu">>, <<"NTP", "drift">>, <<"DAN1", "mute">>}
    ELSE {<<"fan">>}
SageVueFaultLists(sc) ==
    IF sc = "sagevue" THEN SeqsUpTo(SageVueMessages(sc), MaxFaults)
    ELSE IF sc = "all" THEN SeqsUpTo(SageVueMessages(sc), 1)
    ELSE {<<>>}
DeviceErrorCounts(sc) == IF sc = "sagevue" THEN 0..MaxDeviceErrors ELSE {0}
SageVueStatuses(sc) == IF sc \in {"sagevue", "all"} THEN {"Green", "Red"} ELSE {"Green"}
SageVueSystems(sc) ==
    {<<[Description |-> <<"Hall">>, Status |-> st, Faults |-> f]>> :
        st \in SageVueStatuses(sc), f \in SageVueFaultLists(sc)}

\* ------------------------------------------------------------------ state

VARIABLES
    scope,                    \* environment bound, see Scopes
    pc,                       \* where prog_thread is
    SEND_ALERTS,
    DDM_DOMAINS, DDM_ERROR_LIST, DDM_OFFLINE_LIST, DDM_TEMP_LIST, DDM_TEMP_OFFLINE_LIST,
    ALERTS_TEMP_IGNORE, ALERTS_NOTIF_LIST,
    SageVue_Error_List,
    Fusion_Error_List, Fusion_Offline_List, Fusion_Help_Request_List,
    DDM_Total_Errors, DDM_Missing_Devices, Sagevue_Total_Errors, Sagevue_Missing_Devices,
    timers,                   \* per keyword, the mute_thread runs asleep at line 213
    mute,                     \* the /ManualMute request this step handled, if any
    ddmOk,                    \* every query of the last ddm_thread run answered
    outbox,                   \* the alert, help and report posts of the last step
    last,                     \* what the last backend step fetched, extracted and submitted
    lost                      \* history: the alerts submitted and not posted, see TrackStep

ddmVars == <<DDM_ERROR_LIST, DDM_OFFLINE_LIST, DDM_TEMP_LIST, DDM_TEMP_OFFLINE_LIST,
             DDM_Total_Errors, DDM_Missing_Devices, ddmOk>>
sageVars == <<SageVue_Error_List, Sagevue_Total_Errors, Sagevue_Missing_Devices>>
fusionVars == <<Fusion_Error_List, Fusion_Offline_List, Fusion_Help_Request_List>>
vars == <<scope, pc, SEND_ALERTS, DDM_DOMAINS, ddmVars, ALERTS_TEMP_IGNORE,
          ALERTS_NOTIF_LIST, sageVars, fusionVars, outbox, last, timers, mute, lost>>

\* No backend step has run since the last flush.
\* `same`: the keys the step extracted are the keys its lists stored on entry.
NoStep == [op |-> "none", ok |-> TRUE, raw |-> <<>>, fresh |-> <<>>, pushed |-> <<>>,
           same |-> FALSE]

\* The keywords a mute request names: the domain of the DDM alerts (their
\* device field) and first word of the room RS, the device of the DDM alerts
\* (in their message field), and the category label of the DDM alerts.
MuteKeywords == {<<"Stage">>, <<"mic">>, <<"DDM">>}

\* The `length` argument of a request, as request.args.get returns it: None
\* when the parameter is missing, else its text, one token per character.
Missing == [given |-> FALSE, text |-> <<>>]
MuteLengths ==
    {Missing} \cup {[given |-> TRUE, text |-> t] : t \in {<<"a">>, <<"0">>, <<"5">>, <<"sup2">>}}

\* The characters of the lengths: the decimal digits, and the superscript
\* two, which str.isnumeric accepts and int() does not.
DecimalDigits == {"0", "5"}
NumericChars == DecimalDigits \cup {"sup2"}
DigitValue(c) == IF c = "5" THEN 5 ELSE 0

\* A faulty variant of isnumeric, which accepts every text.
isnumeric_Always(text) == TRUE

\* Python str.isnumeric: not empty, and every character numeric.
isnumeric(text) == Len(text) > 0 /\ \A i \in 1..Len(text) : text[i] \in NumericChars

\* Python int(text) answers (does not raise ValueError) for decimal digits.
IntParses(text) == Len(text) > 0 /\ \A i \in 1..Len(text) : text[i] \in DecimalDigits

\* Python int(text) for a text of decimal digits.
RECURSIVE int(_)
int(text) ==
    IF text = <<>> THEN 0
    ELSE 10 * int(SubSeq(text, 1, Len(text) - 1)) + DigitValue(text[Len(text)])

\* No /ManualMute request was handled by the step.
NoMute == [length |-> Missing, reply |-> <<>>, notices |-> <<>>]

Init ==
    /\ scope \in Scopes
    /\ pc = "start"
    /\ SEND_ALERTS = FALSE
    /\ DDM_DOMAINS = <<>>
    /\ DDM_ERROR_LIST = <<>>
    /\ DDM_OFFLINE_LIST = <<>>
    /\ DDM_TEMP_LIST = <<>>
    /\ DDM_TEMP_OFFLINE_LIST = <<>>
    /\ ALERTS_TEMP_IGNORE = <<>>
    /\ ALERTS_NOTIF_LIST = <<>>
    /\ SageVue_Error_List = <<>>
    /\ Fusion_Error_List = <<>>
    /\ Fusion_Offline_List = <<>>
    /\ Fusion_Help_Request_List = <<>>
    /\ DDM_Total_Errors = 0
    /\ DDM_Missing_Devices = 0
    /\ Sagevue_Total_Errors = 0
    /\ Sagevue_Missing_Devices = 0
    /\ ddmOk = TRUE
    /\ outbox = <<>>
    /\ last = NoStep
    /\ timers = [k \in MuteKeywords |-> 0]
    /\ mute = NoMute
    /\ lost = {}

\* ------------------------------------------------------- the alert batcher

\* A faulty variant of add_to_alert_notif_push, which puts the line at the
\* front of the list: with it the pending lines lose the extraction order.
add_to_alert_notif_push_Front(notif, ignore, category, device, message) ==
    <<category \o Dash \o device \o Dash \o message>> \o notif

\* A faulty variant of add_to_alert_notif_push, which looks for the muted
\* keywords in the whole line, its category label included.
add_to_alert_notif_push_WholeLine(notif, ignore, category, device, message) ==
    IF \E i \in 1..Len(ignore) :
            Contains(category \o Dash \o device \o Dash \o message, ignore[i])
    THEN notif
    ELSE Append(notif, category \o Dash \o device \o Dash \o message)

\* add_to_alert_notif_push: the new value of ALERTS_NOTIF_LIST.
add_to_alert_notif_push(notif, ignore, category, device, message) ==
    IF /\ ~(\E i \in 1..Len(ignore) : Contains(device, ignore[i]))
       /\ ~(\E i \in 1..Len(ignore) : Contains(message, ignore[i]))
    THEN Append(notif, category \o Dash \o device \o Dash \o message)
    ELSE notif

\* What `for ext in ALERTS_TEMP_IGNORE` yields when the list is `before` for
\* the first `at` entries it reads and `after` from then on: a list iterator
\* holds an index, and ends when the index reaches the list's length.
IterView(before, after, at) ==
    SubSeq(before, 1, at) \o SubSeq(after, at + 1, Len(after))

\* add_to_alert_notif_push while a mute_thread removes its keyword from
\* ALERTS_TEMP_IGNORE (line 214) in another thread.  field: the any() of line
\* 222 that was iterating, the one over `device` or the one over `message`;
\* at: how many entries it had read.  The any() over `message` runs after the
\* one over `device`, and only if that one found nothing.
add_to_alert_notif_push_during(notif, before, after, field, at, category, device, message) ==
    LET seenDevice == IF field = "device" THEN IterView(before, after, at) ELSE before
        seenMessage == IF field = "device" THEN after ELSE IterView(before, after, at)
    IN  IF /\ ~(\E i \in 1..Len(seenDevice) : Contains(device, seenDevice[i]))
           /\ ~(\E i \in 1..Len(seenMessage) : Contains(message, seenMessage[i]))
        THEN Append(notif, category \o Dash \o device \o Dash \o message)
        ELSE notif

\* No mute_thread wakes while the backend runs.
NoRace == [on |-> FALSE, keyword |-> <<>>, call |-> 0, field |-> "device", at |-> 0]

\* ALERTS_NOTIF_LIST after the calls of add_to_alert_notif_push recorded in
\* `pushed`, from call i on, when the removal of `race` happens during call
\* race.call: the calls before it read `before`, the calls after it `after`.
RECURSIVE NotifDuring(_, _, _, _, _, _)
NotifDuring(notif, pushed, race, before, after, i) ==
    IF i > Len(pushed) THEN notif
    ELSE LET p == pushed[i]
             next == IF i < race.call
                     THEN add_to_alert_notif_push(notif, before,
                                                  p.category, p.device, p.message)
                     ELSE IF i = race.call
                     THEN add_to_alert_notif_push_during(notif, before, after, race.field,
                                                         race.at, p.category, p.device,
                                                         p.message)
                     ELSE add_to_alert_notif_push(notif, after,
                                                  p.category, p.device, p.message)
         IN  NotifDuring(next, pushed, race, before, after, i + 1)

\* A backend loop carries a record st: the lists it edits, st.notif
\* (ALERTS_NOTIF_LIST), and the step's record st.fresh / st.pushed.
\* Submit is the call of add_to_alert_notif_push for the fault `key` of `list`.
Submit(st, ignore, list, key, category, device, message) ==
    [st EXCEPT
        !.notif = add_to_alert_notif_push(@, ignore, category, device, message),
        !.pushed = Append(@, [list |-> list, key |-> key,
                              category |-> category, device |-> device, message |-> message,
                              line |-> category \o Dash \o device \o Dash \o message])]

\* The extractor saw the fault `key` of `list` in the fetched data.
Saw(st, list, key, device, message) ==
    [st EXCEPT !.fresh = Append(@, [list |-> list, key |-> key,
                                    device |-> device, message |-> message])]

\* ------------------------------------------------- the alerts' history

\* The stored active lists of a backend (help requests are not alerts).
ListsOf(op) ==
    CASE op = "ddm" -> {"DDM_ERROR_LIST", "DDM_OFFLINE_LIST"}
      [] op = "sagevue" -> {"SageVue_Error_List"}
      [] op = "fusion" -> {"Fusion_Offline_List", "Fusion_Error_List"}
      [] OTHER -> {}

\* The extracted faults hold `key` of `list`.
InFresh(fresh, list, key) ==
    \E i \in 1..Len(fresh) : fresh[i].list = list /\ fresh[i].key = key

\* The lines a step added to the pending notifications.
AddedLines == SubSeq(ALERTS_NOTIF_LIST', Len(ALERTS_NOTIF_LIST) + 1, Len(ALERTS_NOTIF_LIST'))

\* lost (history) follows every alert a backend step submitted to
\* add_to_alert_notif_push: "pending" while its line waits in
\* ALERTS_NOTIF_LIST, "muted" when the filter of line 222 kept the line out,
\* "disabled" once send_alert_notif cleared the line unsent (line 639 with
\* the test of line 608 false).  An entry is followed for as long as nothing
\* shows its fault cleared: a poll of its backend either extracts the fault
\* again or, for a DDM fault, fails on the query of the fault's domain.
LostEntry(p, why) ==
    [list |-> p.list, key |-> p.key, device |-> p.device, line |-> p.line, why |-> why]

StillActive(l, step, domains) ==
    \/ l.list \notin ListsOf(step.op)
    \/ InFresh(step.fresh, l.list, l.key)
    \/ /\ step.op = "ddm"
       /\ ~step.ok
       /\ Len(step.raw) < Len(domains)
       /\ domains[Len(step.raw) + 1] = l.device

\* The alerts whose history is kept, by environment: the muted ones where
\* mute requests arrive, the pending ones where all three backends report.
Followed(sc) ==
    CASE sc = "mute" -> {"muted"}
      [] sc = "all" -> {"pending"}
      [] OTHER -> {}

\* lost after a backend step.
TrackStep ==
    lost' = {l \in lost : StillActive(l, last', DDM_DOMAINS)}
                \cup {l \in {LostEntry(last'.pushed[i],
                                       IF InList(last'.pushed[i].line, AddedLines)
                                       THEN "pending" ELSE "muted") : i \in 1..Len(last'.pushed)} :
                            l.why \in Followed(scope)}

\* lost after send_alert_notif: a pending alert was posted, or cleared unsent.
TrackFlush ==
    lost' = IF ALERTS_NOTIF_LIST' # <<>> THEN lost
            ELSE IF outbox' # <<>> THEN {l \in lost : l.why # "pending"}
            ELSE {IF l.why = "pending" THEN [l EXCEPT !.why = "disabled"] ELSE l : l \in lost}

\* ------------------------------------------------------------- the reports

NoErrors == <<"No errors to report.">>

\* get_sage_vue_status_message.
get_sage_vue_status_message(errors) ==
    IF Len(errors) = 0 THEN NoErrors ELSE JoinLines(errors, 1)

\* A faulty variant of get_ddm_status_message, without the test of line 338.
get_ddm_status_message_NoTest(errors, offline) ==
    JoinLines(errors, 1) \o JoinLines(offline, 1)

\* get_ddm_status_message: the two lists are joined one after the other.
get_ddm_status_message(errors, offline) ==
    IF Len(errors) = 0 /\ Len(offline) = 0 THEN NoErrors
    ELSE JoinLines(errors, 1) \o JoinLines(offline, 1)

\* Lines 540-543.
FusionReportLines(errors, offline) ==
    [i \in 1..(Len(errors) + Len(offline)) |->
        IF i <= Len(errors) THEN errors[i][1] \o Dash \o errors[i][3]
        ELSE offline[i - Len(errors)] \o Dash \o <<"Room is currently offline">>]

\* get_fusion_status_message.
get_fusion_status_message(errors, offline) ==
    IF Len(errors) = 0 /\ Len(offline) = 0 THEN NoErrors
    ELSE JoinLines(FusionReportLines(errors, offline), 1)

\* run_report: the post on the daily-report channel.
run_report ==
    [channel |-> "report",
     sagevue |-> get_sage_vue_status_message(SageVue_Error_List),
     ddm |-> get_ddm_status_message(DDM_ERROR_LIST, DDM_OFFLINE_LIST),
     fusion |-> get_fusion_status_message(Fusion_Error_List, Fusion_Offline_List)]

\* ---------------------------------------------------------------- SageVue

\* A faulty variant of SageVueBlocked, which blocks no fault.
SageVueBlocked_Never(message) == FALSE

\* Lines 389-391: Dante-mute and NTP faults are not alerted.
SageVueBlocked(message) == Contains(message, <<"DAN1">>) \/ Contains(message, <<"NTP">>)

\* Lines 384-393, from fault i of `system` on.
RECURSIVE SageVueFaults(_, _, _, _)
SageVueFaults(st, ignore, system, i) ==
    IF i > Len(system.Faults) THEN st
    ELSE
        LET message == system.Faults[i]
            error_id == system.Description \o Dash \o message
            seen == Saw([st EXCEPT !.temp = Append(@, error_id)],
                        "SageVue_Error_List", error_id, system.Description, message)
            next == IF NotInList(error_id, seen.err) /\ ~SageVueBlocked(message)
                    THEN Submit([seen EXCEPT !.err = Append(@, error_id)], ignore,
                                "SageVue_Error_List", error_id,
                                <<"SageVue">>, system.Description, message)
                    ELSE seen
        IN  SageVueFaults(next, ignore, system, i + 1)

\* Lines 382-393, from system i on.
RECURSIVE SageVueLoop(_, _, _, _)
SageVueLoop(st, ignore, systems, i) ==
    IF i > Len(systems) THEN st
    ELSE SageVueLoop(
            IF systems[i].Status # "Green" THEN SageVueFaults(st, ignore, systems[i], 1) ELSE st,
            ignore, systems, i + 1)

\* sage_vue_thread, a poll whose requests all answer.
SageVueOk ==
    /\ pc = "sagevue"
    /\ \E systems \in SageVueSystems(scope), errors \in DeviceErrorCounts(scope) :
        \E st \in {SageVueLoop([err |-> SageVue_Error_List, temp |-> <<>>,
                               notif |-> ALERTS_NOTIF_LIST, fresh |-> <<>>, pushed |-> <<>>],
                              ALERTS_TEMP_IGNORE, systems, 1)} :
        \E cleaned \in {RemoveStale(st.err, st.temp, 1)} :
            /\ SageVue_Error_List' = cleaned
            /\ ALERTS_NOTIF_LIST' = st.notif
            /\ Sagevue_Total_Errors' = Len(cleaned)
            /\ Sagevue_Missing_Devices' = errors
            /\ last' = [op |-> "sagevue", ok |-> TRUE, raw |-> <<errors>>,
                        fresh |-> st.fresh, pushed |-> st.pushed,
                        same |-> ListSet(st.temp) = ListSet(SageVue_Error_List)]
    /\ pc' = "ddm"
    /\ outbox' = <<>>
    /\ mute' = NoMute
    /\ UNCHANGED <<timers, scope, SEND_ALERTS, DDM_DOMAINS, ddmVars, ALERTS_TEMP_IGNORE, fusionVars>>
    /\ TrackStep

\* sage_vue_thread, a poll in which a request raises or an answer lacks its
\* fields (lines 364-376): the except clause at line 404 ends the function.
SageVueFail ==
    /\ pc = "sagevue"
    /\ pc' = "ddm"
    /\ last' = [NoStep EXCEPT !.op = "sagevue", !.ok = FALSE]
    /\ outbox' = <<>>
    /\ mute' = NoMute
    /\ UNCHANGED <<timers, scope, SEND_ALERTS, DDM_DOMAINS, ddmVars, ALERTS_TEMP_IGNORE,
                   ALERTS_NOTIF_LIST, sageVars, fusionVars>>
    /\ TrackStep

\* sage_vue_thread, a poll in which the devices request answers without an
\* 'Errors' field (an error body): line 402 raises after lines 382-401 ran.
SageVueDevicesBad ==
    /\ pc = "sagevue"
    /\ \E systems \in SageVueSystems(scope) :
        \E st \in {SageVueLoop([err |-> SageVue_Error_List, temp |-> <<>>,
                               notif |-> ALERTS_NOTIF_LIST, fresh |-> <<>>, pushed |-> <<>>],
                              ALERTS_TEMP_IGNORE, systems, 1)} :
        \E cleaned \in {RemoveStale(st.err, st.temp, 1)} :
            /\ SageVue_Error_List' = cleaned
            /\ ALERTS_NOTIF_LIST' = st.notif
            /\ Sagevue_Total_Errors' = Len(cleaned)
            /\ last' = [op |-> "sagevue", ok |-> FALSE, raw |-> <<>>,
                        fresh |-> st.fresh, pushed |-> st.pushed, same |-> FALSE]
    /\ pc' = "ddm"
    /\ outbox' = <<>>
    /\ mute' = NoMute
    /\ UNCHANGED <<timers, scope, SEND_ALERTS, DDM_DOMAINS, ddmVars, ALERTS_TEMP_IGNORE,
                   Sagevue_Missing_Devices, fusionVars>>
    /\ TrackStep

\* -------------------------------------------------------------------- DDM

\* Lines 287-308: one of the subscription, latency and clocking checks.
DdmDimension(st, ignore, domain, device, dimension, suffix) ==
    IF device.status[dimension] = "ERROR"
    THEN LET key == domain \o Dash \o device.name \o suffix
             seen == Saw([st EXCEPT !.temp = Append(@, key)],
                         "DDM_ERROR_LIST", key, domain, device.name \o suffix)
         IN  IF NotInList(key, seen.err)
             THEN Submit([seen EXCEPT !.err = Append(@, key)], ignore, "DDM_ERROR_LIST", key,
                         <<"DDM">>, domain, device.name \o suffix)
             ELSE seen
    ELSE st

\* Lines 279-308, the body of the device loop.  The three checks of lines
\* 287-308 are statements of the block the connectivity test of line 279
\* opens (they are indented as line 280 is).
DdmDevice(st, ignore, domain, device) ==
    IF device.status.connectivity = "ERROR"
    THEN LET connectivity_string == domain \o Dash \o device.name \o <<" is offline.">>
             seen == Saw([st EXCEPT !.tempOff = Append(@, connectivity_string)],
                         "DDM_OFFLINE_LIST", connectivity_string,
                         domain, device.name \o <<" is offline.">>)
             off == IF NotInList(connectivity_string, seen.off)
                    THEN Submit([seen EXCEPT !.off = Append(@, connectivity_string)], ignore,
                                "DDM_OFFLINE_LIST", connectivity_string,
                                <<"DDM">>, domain, device.name \o <<" is offline.">>)
                    ELSE seen
             sub == DdmDimension(off, ignore, domain, device, "subscriptions",
                                 <<" has a subscription error.">>)
             lat == DdmDimension(sub, ignore, domain, device, "latency",
                                 <<" has a latency error.">>)
         IN  DdmDimension(lat, ignore, domain, device, "clocking",
                          <<" has a clocking error.">>)
    ELSE st

\* Lines 276-308, from device i of the answer on.
RECURSIVE DdmDevices(_, _, _, _, _)
DdmDevices(st, ignore, domain, devices, i) ==
    IF i > Len(devices) THEN st
    ELSE DdmDevices(DdmDevice(st, ignore, domain, devices[i]), ignore, domain, devices, i + 1)

\* Lines 271-311, from domain i on.  answers[i] is what the request of
\* run_ddm_query gets for domain i; run_ddm_query raises when the request
\* raises or its status is not 200 (lines 352-356), and the except clause at
\* line 310 ends the loop.
RECURSIVE DdmDomains(_, _, _, _, _)
DdmDomains(st, ignore, domains, answers, i) ==
    IF i > Len(domains) THEN st
    ELSE IF ~answers[i].ok THEN [st EXCEPT !.ok = FALSE]
    ELSE DdmDomains(
            [DdmDevices(st, ignore, domains[i], answers[i].devices, 1)
                EXCEPT !.raw = Append(@, [domain |-> domains[i], devices |-> answers[i].devices])],
            ignore, domains, answers, i + 1)

\* What the device queries of one poll may answer, one entry per domain.
DdmAnswer(sc, domain) ==
    {[ok |-> TRUE, devices |-> d] : d \in DeviceLists(sc, domain)}
        \cup {[ok |-> FALSE, devices |-> <<>>]}
RECURSIVE DdmAnswers(_, _, _)
DdmAnswers(sc, domains, i) ==
    IF i > Len(domains) THEN {<<>>}
    ELSE {<<a>> \o rest : a \in DdmAnswer(sc, domains[i]), rest \in DdmAnswers(sc, domains, i + 1)}

\* What get_ddm_status_message, run for /RunReport in a Flask thread while
\* prog_thread is in ddm_thread, reads and returns.  lenErrors and lenOffline
\* are the lengths it took at lines 330 and 334 for its range(); errors and
\* offline are the lists as they are when it indexes them (lines 331, 335):
\* an index past the end raises IndexError.
get_ddm_status_message_during(lenErrors, lenOffline, errors, offline) ==
    IF lenErrors > Len(errors) \/ lenOffline > Len(offline)
    THEN [channel |-> "report", failed |-> TRUE, ddm |-> <<>>]
    ELSE [channel |-> "report", failed |-> FALSE,
          ddm |-> get_ddm_status_message(errors, offline)]

\* ddm_thread.  readAt: where a /RunReport request running beside it reads
\* the DDM lists: "none" (no request), "extracted" (after the loop of lines
\* 271-308 and before the removal loops of lines 314-321), "removing" (it
\* took the lengths before the removal loops and indexes the lists after).
\* races: the ways a mute_thread may wake and remove its keyword while one of
\* the step's calls of add_to_alert_notif_push checks the muted keywords.
DdmStep(readAt, races) ==
    /\ pc = "ddm"
    /\ \E answers \in DdmAnswers(scope, DDM_DOMAINS, 1) :
        \E st \in {DdmDomains([err |-> DDM_ERROR_LIST, off |-> DDM_OFFLINE_LIST,
                              temp |-> <<>>, tempOff |-> <<>>, notif |-> ALERTS_NOTIF_LIST,
                              ok |-> TRUE, raw |-> <<>>, fresh |-> <<>>, pushed |-> <<>>],
                             ALERTS_TEMP_IGNORE, DDM_DOMAINS, answers, 1)} :
        \E errors \in {RemoveStale(st.err, st.temp, 1)},
           offline \in {RemoveStale(st.off, st.tempOff, 1)} :
        \E race \in races :
            /\ DDM_TEMP_LIST' = st.temp
            /\ DDM_TEMP_OFFLINE_LIST' = st.tempOff
            /\ DDM_ERROR_LIST' = errors
            /\ DDM_OFFLINE_LIST' = offline
            /\ IF race.on
               THEN /\ race.call <= Len(st.pushed)
                    /\ timers' = [timers EXCEPT ![race.keyword] = @ - 1]
                    /\ ALERTS_TEMP_IGNORE' = ListRemove(ALERTS_TEMP_IGNORE, race.keyword)
                    /\ ALERTS_NOTIF_LIST' =
                            NotifDuring(ALERTS_NOTIF_LIST, st.pushed, race, ALERTS_TEMP_IGNORE,
                                        ListRemove(ALERTS_TEMP_IGNORE, race.keyword), 1)
               ELSE /\ ALERTS_NOTIF_LIST' = st.notif
                    /\ UNCHANGED <<timers, ALERTS_TEMP_IGNORE>>
            /\ DDM_Missing_Devices' = Len(offline)
            /\ DDM_Total_Errors' = Len(errors)
            /\ ddmOk' = st.ok
            /\ last' = [op |-> "ddm", ok |-> st.ok, raw |-> st.raw,
                        fresh |-> st.fresh, pushed |-> st.pushed,
                        same |-> /\ st.ok
                                 /\ ListSet(st.temp) = ListSet(DDM_ERROR_LIST)
                                 /\ ListSet(st.tempOff) = ListSet(DDM_OFFLINE_LIST)]
            /\ outbox' =
                    CASE readAt = "none" -> <<>>
                      [] readAt = "extracted" ->
                            <<get_ddm_status_message_during(
                                Len(st.err), Len(st.off), st.err, st.off)>>
                      [] readAt = "removing" ->
                            <<get_ddm_status_message_during(
                                Len(st.err), Len(st.off), errors, offline)>>
    /\ pc' = "flush"
    /\ mute' = NoMute
    /\ UNCHANGED <<scope, SEND_ALERTS, DDM_DOMAINS, sageVars, fusionVars>>
    /\ TrackStep

\* ddm_thread with no request or mute_thread running beside it.
DdmThread == DdmStep("none", {NoRace})

\* ddm_thread with a /RunReport request served beside it.
HttpReportDuringDdm == \E readAt \in {"extracted", "removing"} : DdmStep(readAt, {NoRace})

\* ddm_thread with a mute_thread waking beside it, during the first or
\* second call of add_to_alert_notif_push.
MuteExpireDuringDdm ==
    DdmStep("none",
            {[on |-> TRUE, keyword |-> keyword, call |-> call, field |-> field, at |-> at] :
                keyword \in {k \in MuteKeywords : timers[k] > 0 /\ InList(k, ALERTS_TEMP_IGNORE)},
                call \in 1..2, field \in {"device", "message"},
                at \in 0..Len(ALERTS_TEMP_IGNORE)})

\* ----------------------------------------------------------------- Fusion

\* Line 29.
BLACKLISTED_KEYWORDS == <<<<"ExampleKeyword1">>, <<"Test Devices">>>>

R1 == <<"Room", "101">>
R2 == <<"Room", "102">>
RT == <<"Test Devices", "Lab">>
RS == <<"Stage", "101">>

\* The rows the offline-rooms query may return (RoomName).
OfflineRows(sc) ==
    IF sc = "fusion" THEN SeqsUpTo({R1, RT}, MaxOfflineRows)
    ELSE IF sc = "all" THEN {<<>>, <<R1>>}
    ELSE {<<>>}

\* The rows the error-alert query may return, each with the rows of its
\* ERROR_MESSAGE query: [RoomName, RoomID, messages].
ErrorRows(sc) ==
    IF sc = "fusion"
    THEN LET first == {<<>>} \cup
                 {<<[RoomName |-> R1, RoomID |-> "id1", messages |-> m]>> :
                     m \in {<<>>, <<<<"lamp">>>>, <<<<"0:ok", "lamp">>>>}}
             second == {<<>>} \cup
                 {<<[RoomName |-> R2, RoomID |-> "id2", messages |-> m]>> :
                     m \in {<<<<"lamp">>>>, <<<<"1:notice", "filter">>>>}}
         IN  {a \o b : a \in first, b \in second}
    ELSE {<<>>}

\* The rows the help-alert query may return, each with its HELP_MESSAGE rows.
HelpRows(sc) ==
    IF sc = "fusion"
    THEN {<<>>} \cup {<<[RoomName |-> R1, RoomID |-> "id1", messages |-> m]>> :
                        m \in {<<>>, <<<<"no", "sound">>>>}}
    ELSE IF sc = "mute"
    THEN {<<>>, <<[RoomName |-> RS, RoomID |-> "id3", messages |-> <<<<"no", "sound">>>>]>>}
    ELSE {<<>>}

\* Lines 466-478 and 505-517: a row becomes the list [RoomName, RoomID]
\* with every message row appended.
RECURSIVE RoomLists(_, _)
RoomLists(rows, i) ==
    IF i > Len(rows) THEN <<>>
    ELSE <<(<<rows[i].RoomName, rows[i].RoomID>> \o rows[i].messages)>> \o RoomLists(rows, i + 1)

\* Python `any(ext in name for ext in keywords)`.
AnyIn(name, keywords) == \E i \in 1..Len(keywords) : Contains(name, keywords[i])

\* Lines 441-451, from row i on.
RECURSIVE FusionOfflineLoop(_, _, _, _)
FusionOfflineLoop(st, ignore, rows, i) ==
    IF i > Len(rows) THEN st
    ELSE
        LET name == rows[i]
            seen == Saw([st EXCEPT !.tempOff = Append(@, name)],
                        "Fusion_Offline_List", name, name, <<"Room has gone offline">>)
            next == IF NotInList(name, seen.off) /\ ~AnyIn(name, BLACKLISTED_KEYWORDS)
                    THEN Submit([seen EXCEPT !.off = Append(@, name)], ignore,
                                "Fusion_Offline_List", name,
                                <<"Fusion">>, name, <<"Room has gone offline">>)
                    ELSE seen
        IN  FusionOfflineLoop(next, ignore, rows, i + 1)

\* Line 487: the message is neither a notice nor an ok.
IsFusionError(message) ==
    ~Contains(message, <<"1:notice">>) /\ ~Contains(message, <<"0:ok">>)

\* Lines 485-489, from room i of temp_error on.  room[2] of a room whose
\* message query returned no row raises IndexError.
RECURSIVE FusionErrorLoop(_, _, _, _)
FusionErrorLoop(st, ignore, temp_error, i) ==
    IF i > Len(temp_error) THEN st
    ELSE
        LET room == temp_error[i]
            seen == Saw(st, "Fusion_Error_List", room, room[1],
                        IF Len(room) >= 3 THEN room[3] ELSE <<>>)
        IN  IF NotInList(room, seen.err)
            THEN IF Len(room) < 3 THEN [seen EXCEPT !.raised = TRUE]
                 ELSE IF IsFusionError(room[3])
                 THEN FusionErrorLoop(
                        Submit([seen EXCEPT !.err = Append(@, room)], ignore,
                               "Fusion_Error_List", room, <<"Fusion">>, room[1], room[3]),
                        ignore, temp_error, i + 1)
                 ELSE FusionErrorLoop(seen, ignore, temp_error, i + 1)
            ELSE FusionErrorLoop(seen, ignore, temp_error, i + 1)

\* A faulty variant of send_help_request, which posts whatever SEND_ALERTS is.
send_help_request_Always(send_alerts, room, message) ==
    <<[channel |-> "help", room |-> <<"Room - ">> \o room,
       text |-> <<"Customer says: ">> \o message]>>

\* send_help_request: the post it makes, if any.
send_help_request(send_alerts, room, message) ==
    IF send_alerts
    THEN <<[channel |-> "help", room |-> <<"Room - ">> \o room,
            text |-> <<"Customer says: ">> \o message]>>
    ELSE <<>>

\* Lines 523-526, from room i of temp_error on.  postRaises: the webhook
\* post of send_help_request raises.
RECURSIVE FusionHelpLoop(_, _, _, _, _)
FusionHelpLoop(st, send_alerts, postRaises, temp_error, i) ==
    IF i > Len(temp_error) THEN st
    ELSE
        LET room == temp_error[i]
        IN  IF NotInList(room, st.help)
            THEN LET added == [st EXCEPT !.help = Append(@, room)]
                 IN  IF Len(room) < 3 \/ (send_alerts /\ postRaises)
                     THEN [added EXCEPT !.raised = TRUE]
                     ELSE FusionHelpLoop(
                            [added EXCEPT !.posts = @ \o send_help_request(send_alerts, room[1], room[3])],
                            send_alerts, postRaises, temp_error, i + 1)
            ELSE FusionHelpLoop(st, send_alerts, postRaises, temp_error, i + 1)

\* fusion_thread up to the point it returns or raises.  failAt: 0 when every
\* query answers, else the query that raises (1 connect or offline rooms,
\* 2 error alerts, 3 help alerts).
FusionRun(st, ignore, send_alerts, failAt, offline, errors, help, postRaises) ==
    IF failAt = 1 THEN [st EXCEPT !.raised = TRUE, !.ok = FALSE]
    ELSE
        LET a == FusionOfflineLoop(st, ignore, offline, 1)
            b == [a EXCEPT !.off = RemoveStale(a.off, a.tempOff, 1)]
        IN  IF failAt = 2 THEN [b EXCEPT !.raised = TRUE, !.ok = FALSE]
            ELSE
                LET c == FusionErrorLoop(b, ignore, RoomLists(errors, 1), 1)
                    d == [c EXCEPT !.err = RemoveStale(c.err, RoomLists(errors, 1), 1)]
                IN  IF c.raised THEN [c EXCEPT !.ok = FALSE]
                    ELSE IF failAt = 3 THEN [d EXCEPT !.raised = TRUE, !.ok = FALSE]
                    ELSE
                        LET e == FusionHelpLoop(d, send_alerts, postRaises, RoomLists(help, 1), 1)
                        IN  IF e.raised THEN [e EXCEPT !.ok = FALSE]
                            ELSE [e EXCEPT !.help = RemoveStale(e.help, RoomLists(help, 1), 1)]

\* fusion_thread, called from the try block of prog_thread (lines 165-170):
\* when it raises, sage_vue_thread and ddm_thread are not called.
FusionStep(failAt, offline, errors, help, postRaises) ==
    /\ pc = "fusion"
    /\ \E st \in {FusionRun([err |-> Fusion_Error_List, off |-> Fusion_Offline_List,
                            help |-> Fusion_Help_Request_List, tempOff |-> <<>>,
                            notif |-> ALERTS_NOTIF_LIST, posts |-> <<>>,
                            raised |-> FALSE, ok |-> TRUE, fresh |-> <<>>, pushed |-> <<>>],
                           ALERTS_TEMP_IGNORE, SEND_ALERTS, failAt, offline, errors, help,
                           postRaises)} :
           /\ Fusion_Error_List' = st.err
           /\ Fusion_Offline_List' = st.off
           /\ Fusion_Help_Request_List' = st.help
           /\ ALERTS_NOTIF_LIST' = st.notif
           /\ outbox' = st.posts
           /\ last' = [op |-> "fusion", ok |-> st.ok, raw |-> RoomLists(help, 1),
                       fresh |-> st.fresh, pushed |-> st.pushed,
                       same |-> /\ st.ok
                                /\ ListSet(st.tempOff) = ListSet(Fusion_Offline_List)
                                /\ ListSet(RoomLists(errors, 1)) = ListSet(Fusion_Error_List)]
           /\ pc' = IF st.raised THEN "flush" ELSE "sagevue"
    /\ mute' = NoMute
    /\ UNCHANGED <<timers, scope, SEND_ALERTS, DDM_DOMAINS, ddmVars, ALERTS_TEMP_IGNORE, sageVars>>
    /\ TrackStep

\* fusion_thread, every query answers.
FusionThread ==
    \E offline \in OfflineRows(scope), errors \in ErrorRows(scope), help \in HelpRows(scope),
       postRaises \in BOOLEAN :
        /\ postRaises => (SEND_ALERTS /\ help # <<>>)
        /\ FusionStep(0, offline, errors, help, postRaises)

\* fusion_thread, the connection or a query raises.
FusionQueryFails ==
    \/ FusionStep(1, <<>>, <<>>, <<>>, FALSE)
    \/ \E offline \in OfflineRows(scope) : FusionStep(2, offline, <<>>, <<>>, FALSE)
    \/ \E offline \in OfflineRows(scope), errors \in ErrorRows(scope) :
            FusionStep(3, offline, errors, <<>>, FALSE)

\* ------------------------------------------------------------ the poll loop

\* Line 161: get_dante_domains before the loop.  When the query raises the
\* exception leaves prog_thread and the thread ends.
Start ==
    /\ pc = "start"
    /\ \/ \E domains \in DomainLists(scope) : DDM_DOMAINS' = domains /\ pc' = "fusion"
       \/ DDM_DOMAINS' = <<>> /\ pc' = "dead"
    /\ last' = NoStep
    /\ outbox' = <<>>
    /\ mute' = NoMute
    /\ UNCHANGED <<timers, scope, SEND_ALERTS, ddmVars, ALERTS_TEMP_IGNORE, ALERTS_NOTIF_LIST,
                   sageVars, fusionVars>>
    /\ UNCHANGED lost

\* A faulty variant of AlertMessage, whose body is the last pending line only.
AlertMessage_LastLineOnly(pending) ==
    [channel |-> "alert", count |-> Len(pending), plural |-> Len(pending) > 1,
     text |-> JoinLines(pending, Len(pending))]

\* Lines 609-638: the post send_alert_notif makes for the pending lines.
AlertMessage(pending) ==
    [channel |-> "alert", count |-> Len(pending), plural |-> Len(pending) > 1,
     text |-> JoinLines(pending, 1)]

\* send_alert_notif, called at line 173 outside the try block.  outcome: the
\* webhook accepts the post, answers with an error status (requests.post
\* returns either way), or requests.post raises.
SendAlertNotif ==
    /\ pc = "flush"
    /\ \E outcome \in {"accepted", "refused", "raised"} :
        IF SEND_ALERTS /\ Len(ALERTS_NOTIF_LIST) > 0
        THEN /\ outbox' = <<AlertMessage(ALERTS_NOTIF_LIST)>>
             /\ last' = [NoStep EXCEPT !.op = "flush", !.ok = (outcome = "accepted"),
                                       !.raw = <<outcome>>]
             /\ IF outcome = "raised"
                THEN pc' = "dead" /\ UNCHANGED ALERTS_NOTIF_LIST
                ELSE pc' = "sched" /\ ALERTS_NOTIF_LIST' = <<>>
        ELSE /\ outcome = "accepted"
             /\ outbox' = <<>>
             /\ last' = [NoStep EXCEPT !.op = "flush"]
             /\ pc' = "sched"
             /\ ALERTS_NOTIF_LIST' = <<>>
    /\ mute' = NoMute
    /\ UNCHANGED <<timers, scope, SEND_ALERTS, DDM_DOMAINS, ddmVars, ALERTS_TEMP_IGNORE,
                   sageVars, fusionVars>>
    /\ TrackFlush

\* schedule.run_pending() at line 176, then the sleep: no job is due.
RunPendingNone ==
    /\ pc = "sched"
    /\ pc' = "fusion"
    /\ last' = NoStep
    /\ outbox' = <<>>
    /\ mute' = NoMute
    /\ UNCHANGED <<timers, scope, SEND_ALERTS, DDM_DOMAINS, ddmVars, ALERTS_TEMP_IGNORE,
                   ALERTS_NOTIF_LIST, sageVars, fusionVars>>
    /\ UNCHANGED lost

\* run_pending runs the job of line 688, get_dante_domains.  A job's
\* exception leaves run_pending and prog_thread.
RunPendingDomains ==
    /\ pc = "sched"
    /\ \/ \E domains \in DomainLists(scope) : DDM_DOMAINS' = domains /\ pc' = "fusion"
       \/ DDM_DOMAINS' = <<>> /\ pc' = "dead"
    /\ last' = [NoStep EXCEPT !.op = "job", !.ok = (pc' # "dead")]
    /\ outbox' = <<>>
    /\ mute' = NoMute
    /\ UNCHANGED <<timers, scope, SEND_ALERTS, ddmVars, ALERTS_TEMP_IGNORE, ALERTS_NOTIF_LIST,
                   sageVars, fusionVars>>
    /\ UNCHANGED lost

\* run_pending runs the job of line 691 or 697: enable_alerts(False) or
\* disable_alerts(False).
RunPendingToggle ==
    /\ pc = "sched"
    /\ SEND_ALERTS' \in BOOLEAN
    /\ pc' = "fusion"
    /\ last' = NoStep
    /\ outbox' = <<>>
    /\ mute' = NoMute
    /\ UNCHANGED <<timers, scope, DDM_DOMAINS, ddmVars, ALERTS_TEMP_IGNORE, ALERTS_NOTIF_LIST,
                   sageVars, fusionVars>>
    /\ UNCHANGED lost

\* run_pending runs the job of line 694, run_report; its post may raise.
RunPendingReport ==
    /\ pc = "sched"
    /\ outbox' = <<run_report>>
    /\ \E raises \in BOOLEAN :
        /\ pc' = IF raises THEN "dead" ELSE "fusion"
        /\ last' = [NoStep EXCEPT !.op = "job", !.ok = ~raises]
    /\ mute' = NoMute
    /\ UNCHANGED <<timers, scope, SEND_ALERTS, DDM_DOMAINS, ddmVars, ALERTS_TEMP_IGNORE,
                   ALERTS_NOTIF_LIST, sageVars, fusionVars>>
    /\ UNCHANGED lost

\* ------------------------------------------------------ the REST endpoints

\* /EnableAlerts and /DisableAlerts: enable_alerts(True), disable_alerts(True).
\* Their post on the notify channel is not recorded.
HttpToggle ==
    /\ SEND_ALERTS' = ~SEND_ALERTS
    /\ mute' = NoMute
    /\ UNCHANGED <<timers, scope, pc, DDM_DOMAINS, ddmVars, ALERTS_TEMP_IGNORE, ALERTS_NOTIF_LIST,
                   sageVars, fusionVars, outbox, last>>
    /\ UNCHANGED lost

\* /RunReport: run_report reads the lists and posts; the post (the same as
\* RunPendingReport's) is not recorded.
HttpReport ==
    /\ run_report.channel = "report"
    /\ mute' = NoMute
    /\ UNCHANGED <<timers, scope, pc, SEND_ALERTS, DDM_DOMAINS, ddmVars, ALERTS_TEMP_IGNORE,
                   ALERTS_NOTIF_LIST, sageVars, fusionVars, outbox, last>>
    /\ UNCHANGED lost

\* /ManualMute (lines 248-257) with mute_thread up to its sleep (lines
\* 201-213).  manual_mute starts the thread and answers "Success" whatever the
\* arguments are.  In the thread: a missing length makes str.isnumeric raise
\* TypeError outside the try, and the thread ends; a length that is not
\* numeric is reported on the notify channel; a numeric one is announced and
\* the keyword appended, and then int() either answers and the thread sleeps,
\* or raises, and the except clause of line 216 reports an unknown error with
\* the keyword still in the list.  postRaises: the announcement's post raises.
ManualMute(keyword, length, postRaises) ==
    /\ scope = "mute"
    /\ Len(ALERTS_TEMP_IGNORE) < MaxMutes
    /\ IF ~length.given
       THEN /\ ~postRaises
            /\ mute' = [length |-> length, reply |-> <<"Success">>, notices |-> <<>>]
            /\ UNCHANGED <<ALERTS_TEMP_IGNORE, timers>>
       ELSE IF ~isnumeric(length.text)
       THEN /\ ~postRaises
            /\ mute' = [length |-> length, reply |-> <<"Success">>,
                        notices |-> <<"time parameter is invalid">>]
            /\ UNCHANGED <<ALERTS_TEMP_IGNORE, timers>>
       ELSE IF postRaises
       THEN /\ mute' = [length |-> length, reply |-> <<"Success">>,
                        notices |-> <<"Unknown error">>]
            /\ UNCHANGED <<ALERTS_TEMP_IGNORE, timers>>
       ELSE /\ ALERTS_TEMP_IGNORE' = Append(ALERTS_TEMP_IGNORE, keyword)
            /\ IF IntParses(length.text)
               THEN /\ timers' = [timers EXCEPT ![keyword] = @ + 1]
                    /\ mute' = [length |-> length, reply |-> <<"Success">>,
                                notices |-> <<"Muting">>]
               ELSE /\ UNCHANGED timers
                    /\ mute' = [length |-> length, reply |-> <<"Success">>,
                                notices |-> <<"Muting", "Unknown error">>]
    /\ UNCHANGED <<scope, pc, SEND_ALERTS, DDM_DOMAINS, ddmVars, ALERTS_NOTIF_LIST,
                   sageVars, fusionVars, outbox, last>>
    /\ UNCHANGED lost

HttpManualMute ==
    \E keyword \in MuteKeywords, length \in MuteLengths, postRaises \in BOOLEAN :
        ManualMute(keyword, length, postRaises)

\* mute_thread after its sleep (lines 214-215): the keyword's first entry is
\* removed.  The sleep's length is not modelled: a thread asleep may wake at
\* any later step.
MuteExpire ==
    \E keyword \in MuteKeywords :
        /\ timers[keyword] > 0
        /\ timers' = [timers EXCEPT ![keyword] = @ - 1]
        /\ ALERTS_TEMP_IGNORE' =
                IF InList(keyword, ALERTS_TEMP_IGNORE)
                THEN ListRemove(ALERTS_TEMP_IGNORE, keyword)
                ELSE ALERTS_TEMP_IGNORE
        /\ mute' = NoMute
        /\ UNCHANGED <<scope, pc, SEND_ALERTS, DDM_DOMAINS, ddmVars, ALERTS_NOTIF_LIST,
                       sageVars, fusionVars, outbox, last>>
        /\ UNCHANGED lost

Next ==
    \/ Start
    \/ FusionThread
    \/ FusionQueryFails
    \/ SageVueOk
    \/ SageVueFail
    \/ SageVueDevicesBad
    \/ DdmThread
    \/ HttpReportDuringDdm
    \/ MuteExpireDuringDdm
    \/ SendAlertNotif
    \/ RunPendingNone
    \/ RunPendingDomains
    \/ RunPendingToggle
    \/ RunPendingReport
    \/ HttpToggle
    \/ HttpReport
    \/ HttpManualMute
    \/ MuteExpire

Spec == Init /\ [][Next]_vars

\* ================================================================= claims

\* The stored active list named `list`, before and after a step.
Stored(list) ==
    CASE list = "DDM_ERROR_LIST" -> DDM_ERROR_LIST
      [] list = "DDM_OFFLINE_LIST" -> DDM_OFFLINE_LIST
      [] list = "SageVue_Error_List" -> SageVue_Error_List
      [] list = "Fusion_Offline_List" -> Fusion_Offline_List
      [] list = "Fusion_Error_List" -> Fusion_Error_List
StoredAfter(list) ==
    CASE list = "DDM_ERROR_LIST" -> DDM_ERROR_LIST'
      [] list = "DDM_OFFLINE_LIST" -> DDM_OFFLINE_LIST'
      [] list = "SageVue_Error_List" -> SageVue_Error_List'
      [] list = "Fusion_Offline_List" -> Fusion_Offline_List'
      [] list = "Fusion_Error_List" -> Fusion_Error_List'

\* prog_thread takes the step that runs fusion_thread, sage_vue_thread or
\* ddm_thread.
BackendStep == pc \in {"fusion", "sagevue", "ddm"} /\ pc' # pc

\* A fault the backend alerts on: not a Dante-mute or NTP fault of SageVue,
\* not a blacklisted Fusion room, not a Fusion notice or ok.
Notifiable(f) ==
    CASE f.list = "SageVue_Error_List" ->
            ~Contains(f.message, <<"DAN1">>) /\ ~Contains(f.message, <<"NTP">>)
      [] f.list = "Fusion_Offline_List" ->
            \A i \in 1..Len(BLACKLISTED_KEYWORDS) : ~Contains(f.device, BLACKLISTED_KEYWORDS[i])
      [] f.list = "Fusion_Error_List" ->
            ~Contains(f.message, <<"1:notice">>) /\ ~Contains(f.message, <<"0:ok">>)
      [] OTHER -> TRUE

\* How often the fault f was submitted to add_to_alert_notif_push.
Submissions(pushed, f) ==
    Cardinality({j \in 1..Len(pushed) : pushed[j].list = f.list /\ pushed[j].key = f.key})

\* C1: in a poll of a backend whose fetch succeeds, a notifiable extracted
\* fault that is not in the stored active list is submitted exactly once, and
\* one that is in the stored list is not submitted.
C1_NewFaultsSubmittedOnce ==
    [][(BackendStep /\ last'.ok) =>
        \A i \in 1..Len(last'.fresh) :
            LET f == last'.fresh[i]
            IN  Notifiable(f) =>
                    Submissions(last'.pushed, f) = (IF InList(f.key, Stored(f.list)) THEN 0 ELSE 1)
      ]_vars

\* C1 witness: a successful poll that submitted one fault and left another,
\* already stored, unsubmitted.
C1_Witness ==
    /\ last.op \in {"fusion", "sagevue", "ddm"}
    /\ last.ok
    /\ \E i, j \in 1..Len(last.fresh) :
        /\ Notifiable(last.fresh[i]) /\ Submissions(last.pushed, last.fresh[i]) = 1
        /\ Notifiable(last.fresh[j]) /\ Submissions(last.pushed, last.fresh[j]) = 0

\* C2: after a poll whose fetch succeeded, every key that was stored and is
\* absent from the extracted faults has been removed from its list.
C2_ClearedFaultsRemoved ==
    [][(BackendStep /\ last'.ok) =>
        \A l \in ListsOf(last'.op) : \A i \in 1..Len(Stored(l)) :
            ~InFresh(last'.fresh, l, Stored(l)[i]) => ~InList(Stored(l)[i], StoredAfter(l))
      ]_vars

\* C3: in successive successful polls of the domain manager, a fault absent
\* from the previous extraction (DDM_TEMP_LIST and DDM_TEMP_OFFLINE_LIST
\* still hold it) and present in this one is submitted again.
C3_ReappearingFaultRenotified ==
    [][(pc = "ddm" /\ pc' # pc /\ ddmOk /\ last'.ok) =>
        \A i \in 1..Len(last'.fresh) :
            LET f == last'.fresh[i]
            IN  (~InList(f.key, DDM_TEMP_LIST) /\ ~InList(f.key, DDM_TEMP_OFFLINE_LIST)) =>
                    Submissions(last'.pushed, f) = 1
      ]_vars

\* C4: whichever backend fails, the backend phase of a cycle ends (the loop
\* is about to flush) with ddm_thread, the last of the three, having run.
C4_AllBackendsPolled == (pc = "flush") => (last.op = "ddm")

\* C5: a poll of the domain manager in which a devices query fails (for the
\* only domain or for one of several) leaves DDM_ERROR_LIST and
\* DDM_OFFLINE_LIST as they were.
C5_FailedFetchKeepsStored ==
    [][(pc = "ddm" /\ pc' # pc /\ ~last'.ok) =>
        \A l \in ListsOf("ddm") : StoredAfter(l) = Stored(l)
      ]_vars

\* C6: no failure of the flush or of a scheduled job ends the poll loop.
C6_PollLoopNeverStops ==
    [][(pc \in {"fusion", "sagevue", "ddm", "flush", "sched"}) => (pc' # "dead")]_vars

\* C7: after every flush attempt the pending list is empty.
C7_PendingEmptyAfterFlush == (last.op = "flush") => (ALERTS_NOTIF_LIST = <<>>)

\* The lines of a "\r"-joined text.
RECURSIVE SplitLines(_)
SplitLines(text) ==
    IF text = <<>> THEN <<>>
    ELSE IF \E i \in 1..Len(text) : text[i] = "\r"
    THEN LET k == CHOOSE i \in 1..Len(text) :
                    text[i] = "\r" /\ \A j \in 1..(i - 1) : text[j] # "\r"
         IN  <<SubSeq(text, 1, k - 1)>> \o SplitLines(SubSeq(text, k + 1, Len(text)))
    ELSE <<text>>

\* C8: a flush posts on the alert channel iff SEND_ALERTS holds and a line is
\* pending; it then posts one message, whose count is the number of pending
\* lines and whose text holds exactly the pending lines, in order.
C8_FlushSendsOneBatch ==
    [][(pc = "flush" /\ pc' # pc) =>
        /\ (outbox' # <<>>) <=> (SEND_ALERTS /\ Len(ALERTS_NOTIF_LIST) > 0)
        /\ (outbox' # <<>>) =>
            /\ Len(outbox') = 1
            /\ outbox'[1].channel = "alert"
            /\ outbox'[1].count = Len(ALERTS_NOTIF_LIST)
            /\ SplitLines(outbox'[1].text) = ALERTS_NOTIF_LIST
      ]_vars

\* C8 witness: a flush that posted a batch of several lines.
C8_Witness ==
    /\ last.op = "flush"
    /\ Len(outbox) = 1
    /\ outbox[1].channel = "alert"
    /\ outbox[1].count >= 2

\* The key of the fault of `dimension` for a device of a domain.
DdmFaultKey(domain, name, dimension) ==
    domain \o Dash \o name \o
        (CASE dimension = "connectivity" -> <<" is offline.">>
           [] dimension = "subscriptions" -> <<" has a subscription error.">>
           [] dimension = "latency" -> <<" has a latency error.">>
           [] dimension = "clocking" -> <<" has a clocking error.">>)

\* C9: of every device the domain manager returned, each dimension whose
\* value is "ERROR" yields exactly one extracted fault.
C9_DimensionsIndependent ==
    (last.op = "ddm") =>
        \A r \in 1..Len(last.raw) : \A d \in 1..Len(last.raw[r].devices) :
            \A dimension \in {"connectivity", "subscriptions", "latency", "clocking"} :
                LET device == last.raw[r].devices[d]
                    key == DdmFaultKey(last.raw[r].domain, device.name, dimension)
                IN  device.status[dimension] = "ERROR" =>
                        Cardinality({i \in 1..Len(last.fresh) : last.fresh[i].key = key}) = 1

\* The keys of `list` among the notifiable extracted faults, in extraction
\* order, each at its first appearance.
RECURSIVE FirstNotifiable(_, _, _)
FirstNotifiable(fresh, list, i) ==
    IF i = 0 THEN <<>>
    ELSE LET before == FirstNotifiable(fresh, list, i - 1)
             f == fresh[i]
         IN  IF f.list = list /\ Notifiable(f) /\ ~InList(f.key, before)
             THEN Append(before, f.key)
             ELSE before

\* The submitted faults, restricted to `list`.
RECURSIVE PushedKeys(_, _, _)
PushedKeys(pushed, list, i) ==
    IF i = 0 THEN <<>>
    ELSE IF pushed[i].list = list THEN Append(PushedKeys(pushed, list, i - 1), pushed[i].key)
    ELSE PushedKeys(pushed, list, i - 1)

\* The lines of the submitted faults.
PushedLines(pushed) == [i \in 1..Len(pushed) |-> pushed[i].line]

\* C10: a successful poll of a backend whose stored lists are empty submits
\* every notifiable extracted fault, in extraction order; with no keyword
\* muted the lines are appended to the pending list in that order.
C10_FirstPollSubmitsAll ==
    [][(BackendStep /\ last'.ok /\ \A l \in ListsOf(last'.op) : Stored(l) = <<>>) =>
        /\ \A l \in ListsOf(last'.op) :
            /\ PushedKeys(last'.pushed, l, Len(last'.pushed))
                    = FirstNotifiable(last'.fresh, l, Len(last'.fresh))
            /\ StoredAfter(l) = FirstNotifiable(last'.fresh, l, Len(last'.fresh))
        /\ ALERTS_TEMP_IGNORE = <<>> =>
                ALERTS_NOTIF_LIST' = ALERTS_NOTIF_LIST \o PushedLines(last'.pushed)
      ]_vars

\* C10 witness: the first poll of the domain manager found a device offline
\* with a subscription and a clocking error, and submitted the three faults
\* in that order.
C10_Witness ==
    /\ last.op = "ddm"
    /\ last.ok
    /\ Len(last.pushed) = 3
    /\ Contains(last.pushed[2].key, <<" has a subscription error.">>)
    /\ Contains(last.pushed[3].key, <<" has a clocking error.">>)
    /\ DDM_OFFLINE_LIST = <<last.pushed[1].key>>
    /\ DDM_ERROR_LIST = <<last.pushed[2].key, last.pushed[3].key>>
    /\ Len(ALERTS_NOTIF_LIST) >= 3

\* The keys of `list` among the faults a step extracted.
FreshKeys(fresh, list) ==
    {fresh[i].key : i \in {j \in 1..Len(fresh) : fresh[j].list = list}}

\* C11: a successful poll of a backend whose extracted fault set equals the
\* set the backend's lists store submits nothing, removes nothing and leaves
\* every stored list as it was.
C11_SameSetCycleIsIdempotent ==
    [][(/\ BackendStep
        /\ last'.ok
        /\ \A l \in ListsOf(last'.op) : FreshKeys(last'.fresh, l) = ListSet(Stored(l)))
            => /\ last'.pushed = <<>>
               /\ ALERTS_NOTIF_LIST' = ALERTS_NOTIF_LIST
               /\ \A l \in ListsOf(last'.op) : StoredAfter(l) = Stored(l)
      ]_vars

\* A successful poll extracted the two or more faults its lists already
\* stored.
C11_Witness ==
    /\ last.op \in {"fusion", "sagevue", "ddm"}
    /\ last.ok
    /\ last.same
    /\ Len(last.fresh) >= 2

\* ------------------------------------------------------ the mute requests

\* The length of a request is a positive integer.
PositiveInteger(length) ==
    length.given /\ IntParses(length.text) /\ int(length.text) > 0

\* Number of positions of L holding x.
Count(x, L) == Cardinality({i \in 1..Len(L) : L[i] = x})

\* C12: a mute request whose duration is not a positive integer (not numeric,
\* missing, or zero) is rejected: it is not announced as a mute and it
\* registers no keyword.
C12_BadDurationRejected ==
    [][(mute' # NoMute /\ ~PositiveInteger(mute'.length))
            => /\ ALERTS_TEMP_IGNORE' = ALERTS_TEMP_IGNORE
               /\ ~InList("Muting", mute'.notices)
      ]_vars

\* C13: a /ManualMute request whose duration holds no numeric character
\* changes neither the muted keywords, nor the stored lists, nor the pending
\* notifications, nor SEND_ALERTS.
C13_NonNumericMuteChangesNothing ==
    [][(/\ mute' # NoMute
        /\ mute'.length.given
        /\ \A i \in 1..Len(mute'.length.text) : mute'.length.text[i] \notin NumericChars)
            => UNCHANGED <<ALERTS_TEMP_IGNORE, timers, ALERTS_NOTIF_LIST, SEND_ALERTS,
                           DDM_ERROR_LIST, DDM_OFFLINE_LIST, SageVue_Error_List,
                           Fusion_Error_List, Fusion_Offline_List, Fusion_Help_Request_List>>
      ]_vars

\* A request with the duration "a" was handled while a keyword was muted and
\* a notification was pending.
C13_Witness ==
    /\ mute.length = [given |-> TRUE, text |-> <<"a">>]
    /\ mute.notices = <<"time parameter is invalid">>
    /\ ALERTS_TEMP_IGNORE # <<>>
    /\ ALERTS_NOTIF_LIST # <<>>

\* C14: /ManualMute does not answer with a success acknowledgement when the
\* duration is not a positive integer.
C14_BadDurationAnswersError ==
    (mute # NoMute /\ ~PositiveInteger(mute.length)) => (mute.reply # <<"Success">>)

\* C15: every entry of the muted keywords is removed by the timer of the
\* request that registered it: each entry of ALERTS_TEMP_IGNORE has its own
\* mute_thread asleep, which removes it on waking.
C15_EveryMuteEntryHasItsTimer ==
    \A k \in MuteKeywords : Count(k, ALERTS_TEMP_IGNORE) <= timers[k]

\* The line of a submitted alert is kept when no muted keyword is in its
\* device field and none is in its message field.
RECURSIVE UnmutedLines(_, _, _)
UnmutedLines(pushed, ignore, i) ==
    IF i > Len(pushed) THEN <<>>
    ELSE (IF \E j \in 1..Len(ignore) :
                \/ Contains(pushed[i].device, ignore[j])
                \/ Contains(pushed[i].message, ignore[j])
          THEN <<>>
          ELSE <<pushed[i].line>>) \o UnmutedLines(pushed, ignore, i + 1)

DanteOrNtp(message) == Contains(message, <<"DAN1">>) \/ Contains(message, <<"NTP">>)

\* C17: a SageVue fault whose message contains "DAN1" or "NTP" is never
\* stored in SageVue_Error_List and never submitted for notification, and the
\* missing-devices gauge is the raw device-error count of the same poll.
C17_DanteAndNtpNeverNotified ==
    [][(pc = "sagevue" /\ pc' # pc /\ last'.ok)
            => /\ \A i \in 1..Len(last'.fresh) :
                    DanteOrNtp(last'.fresh[i].message)
                        => /\ ~InList(last'.fresh[i].key, SageVue_Error_List')
                           /\ Submissions(last'.pushed, last'.fresh[i]) = 0
                           /\ \A j \in 1..Len(ALERTS_NOTIF_LIST') :
                                    ~Contains(ALERTS_NOTIF_LIST'[j], last'.fresh[i].message)
               /\ Sagevue_Missing_Devices' = last'.raw[1]
      ]_vars

\* A poll reported an NTP or Dante-mute fault beside a notifiable one, with
\* one raw device error: one error is stored and one device is missing.
C17_Witness ==
    /\ last.op = "sagevue"
    /\ last.ok
    /\ Len(last.fresh) = 2
    /\ DanteOrNtp(last.fresh[1].message)
    /\ ~DanteOrNtp(last.fresh[2].message)
    /\ SageVue_Error_List = <<last.fresh[2].key>>
    /\ Sagevue_Total_Errors = 1
    /\ last.raw = <<1>>
    /\ Sagevue_Missing_Devices = 1

\* ------------------------------------------------------- the help requests

\* The help posts due for the rows `rows` of the help query, from row i on:
\* one for each row that is neither stored nor earlier in the rows.
RECURSIVE HelpPostsDue(_, _, _)
HelpPostsDue(rows, stored, i) ==
    IF i > Len(rows) THEN <<>>
    ELSE (IF InList(rows[i], stored) \/ InList(rows[i], SubSeq(rows, 1, i - 1))
          THEN <<>>
          ELSE <<[channel |-> "help", room |-> <<"Room - ">> \o rows[i][1],
                  text |-> <<"Customer says: ">> \o rows[i][3]]>>)
         \o HelpPostsDue(rows, stored, i + 1)

ReportJobStep == pc = "sched" /\ pc' # pc /\ outbox' # <<>>

\* C19: running a report leaves the stored lists of every backend, the
\* pending notifications, the muted keywords and SEND_ALERTS unchanged, and
\* the section of a backend with no active fault reads exactly
\* "No errors to report.".
C19_ReportIsReadOnly ==
    [][ReportJobStep
            => /\ UNCHANGED <<DDM_ERROR_LIST, DDM_OFFLINE_LIST, SageVue_Error_List,
                              Fusion_Error_List, Fusion_Offline_List,
                              Fusion_Help_Request_List, ALERTS_NOTIF_LIST,
                              ALERTS_TEMP_IGNORE, timers, SEND_ALERTS>>
               /\ Len(outbox') = 1
               /\ outbox'[1].channel = "report"
               /\ (DDM_ERROR_LIST = <<>> /\ DDM_OFFLINE_LIST = <<>>)
                        => outbox'[1].ddm = <<"No errors to report.">>
               /\ (SageVue_Error_List = <<>>)
                        => outbox'[1].sagevue = <<"No errors to report.">>
               /\ (Fusion_Error_List = <<>> /\ Fusion_Offline_List = <<>>)
                        => outbox'[1].fusion = <<"No errors to report.">>
      ]_vars

\* The report job ran while the domain manager had no active fault and
\* SageVue had one.
C19_Witness ==
    /\ last.op = "job"
    /\ Len(outbox) = 1
    /\ outbox[1].channel = "report"
    /\ DDM_ERROR_LIST = <<>> /\ DDM_OFFLINE_LIST = <<>>
    /\ outbox[1].ddm = <<"No errors to report.">>
    /\ SageVue_Error_List # <<>>
    /\ outbox[1].sagevue # <<"No errors to report.">>

\* C20: a report request served while ddm_thread runs reads the DDM lists
\* either as they were before the poll or as they are after it, and its
\* read does not fail.
C20_ReportReadsWholeGeneration ==
    [][(pc = "ddm" /\ pc' # pc /\ outbox' # <<>>)
            => /\ ~outbox'[1].failed
               /\ outbox'[1].ddm \in
                        {get_ddm_status_message(DDM_ERROR_LIST, DDM_OFFLINE_LIST),
                         get_ddm_status_message(DDM_ERROR_LIST', DDM_OFFLINE_LIST')}
      ]_vars

\* ------------------------------------------------- the mutes and the polls

\* C21: an alert that contains a keyword muted before and after the backend
\* step that submits it (muted throughout the check) is suppressed, whatever
\* other mute entries expire during the step.
C21_MutedThroughoutIsSuppressed ==
    [][BackendStep =>
            \A i \in 1..Len(last'.pushed) : \A k \in MuteKeywords :
                (/\ InList(k, ALERTS_TEMP_IGNORE)
                 /\ InList(k, ALERTS_TEMP_IGNORE')
                 /\ \/ Contains(last'.pushed[i].device, k)
                    \/ Contains(last'.pushed[i].message, k))
                    => ~InList(last'.pushed[i].line, AddedLines)
      ]_vars

\* C22: the muted-keyword list holds at most one entry per keyword in every
\* reachable state, whatever the order of the mute requests and of the
\* expiries, two overlapping requests for one keyword included.
C22_OneMuteEntryPerKeyword ==
    \A k \in MuteKeywords : Count(k, ALERTS_TEMP_IGNORE) <= 1

\* C23: send_alert_notif empties the pending list also while SEND_ALERTS is
\* False, posting nothing, with the fault of every pending alert stored as
\* active; and an alert cleared unsent in this way is in no later device
\* alert post for as long as its fault stays active, whatever SEND_ALERTS
\* is by then.
C23_DisabledFlushSilencesFault ==
    [][(pc = "flush" /\ pc' # pc) =>
            /\ ~SEND_ALERTS =>
                    /\ ALERTS_NOTIF_LIST' = <<>>
                    /\ outbox' = <<>>
                    /\ \A l \in lost : l.why = "pending" => InList(l.key, Stored(l.list))
            /\ outbox' # <<>> =>
                    \A l \in lost : l.why = "disabled" => ~InList(l.line, ALERTS_NOTIF_LIST)]_vars

\* C24: an alert submitted while a muted keyword is in its device name or
\* in its message (no mute entry expiring during the step) has its fault
\* stored as active and is not added to the pending notifications; and it
\* is in no later device alert post for as long as its fault stays active,
\* the mute expired or not.
C24_MutedFaultStaysSilent ==
    [][/\ (BackendStep /\ ALERTS_TEMP_IGNORE' = ALERTS_TEMP_IGNORE) =>
            \A i \in 1..Len(last'.pushed) :
                (\E j \in 1..Len(ALERTS_TEMP_IGNORE) :
                    \/ Contains(last'.pushed[i].device, ALERTS_TEMP_IGNORE[j])
                    \/ Contains(last'.pushed[i].message, ALERTS_TEMP_IGNORE[j]))
                  => /\ InList(last'.pushed[i].key, StoredAfter(last'.pushed[i].list))
                     /\ ~InList(last'.pushed[i].line, AddedLines)
       /\ (pc = "flush" /\ pc' # pc /\ outbox' # <<>>) =>
            \A l \in lost : l.why = "muted" => ~InList(l.line, ALERTS_NOTIF_LIST)]_vars

\* No entry is in the list L twice.
NoDuplicates(L) == \A i, j \in 1..Len(L) : L[i] = L[j] => i = j

\* C25: none of the six stored active lists holds an entry twice, and the
\* gauges of the DDM and SageVue lists are the numbers of their entries.
C25_StoredListsHoldNoDuplicates ==
    /\ NoDuplicates(DDM_ERROR_LIST)
    /\ NoDuplicates(DDM_OFFLINE_LIST)
    /\ NoDuplicates(SageVue_Error_List)
    /\ NoDuplicates(Fusion_Offline_List)
    /\ NoDuplicates(Fusion_Error_List)
    /\ NoDuplicates(Fusion_Help_Request_List)
    /\ DDM_Total_Errors = Len(DDM_ERROR_LIST)
    /\ DDM_Missing_Devices = Len(DDM_OFFLINE_LIST)
    /\ Sagevue_Total_Errors = Len(SageVue_Error_List)

\* A SageVue poll answered with the same fault twice: it is stored once and
\* counted once.
C25_Witness ==
    /\ last.op = "sagevue"
    /\ \E i, j \in 1..Len(last.fresh) :
            /\ i < j
            /\ last.fresh[i].key = last.fresh[j].key
            /\ SageVue_Error_List = <<last.fresh[i].key>>
    /\ Sagevue_Total_Errors = 1

====
